---- MODULE Spec2Model ----
(***************************************************************************)
(* Model of the WebNN normalization op builder                             *)
(* (onnxruntime/core/providers/webnn/builders/impl/                        *)
(* normalization_op_builder.cc): registration of the builder, the two      *)
(* support filters and the lowering of BatchNormalization,                 *)
(* InstanceNormalization and LayerNormalization nodes to WebNN calls.      *)
(***************************************************************************)
EXTENDS Integers, Sequences, FiniteSets, TLC

VARIABLES
  builders,        \* op_registrations.builders: the owned builder instances
  op_builder_map,  \* op_registrations.op_builder_map: op type -> builder
  phase,           \* "idle" until a node is handed to the builder, then "node"
  node,            \* the node being processed
  supported,       \* result of IsOpSupportedImpl: "unset", "true", "false"
  inputs_ok,       \* result of HasSupportedInputsImpl: "unset", "true", "false", "crash"
  input_reads,     \* positions of input_defs read by HasSupportedInputsImpl
  status,          \* result of AddToModelBuilderImpl: "unset", "OK", ...
  ops,             \* the calls made on the WebNN graph builder, in order
  operands         \* entries added with model_builder.AddOperand

vars == <<builders, op_builder_map, phase, node, supported, inputs_ok,
          input_reads, status, ops, operands>>

----------------------------------------------------------------------------
\* Bounds of the model.

\* Largest rank of an input shape.
MaxRank == 5

\* constexpr size_t webnn_shape_rank = 4;
webnn_shape_rank == 4

\* Dimension sizes the enumerated shapes are built from (int64_t values).
DimValues == {2, 65536}

\* Input counts of the enumerated nodes.
InputCounts == 1..5

----------------------------------------------------------------------------
\* The three operator types the builder is registered for (op_types[]).
op_types == {"BatchNormalization", "InstanceNormalization", "LayerNormalization"}

\* Element types: the two accepted ones, one that is not, and UNDEFINED,
\* the value GetType leaves in its out parameter when it fails.
TypeTags == {"FLOAT", "FLOAT16", "INT32", "UNDEFINED"}

supported_data_types == {"FLOAT", "FLOAT16"}

----------------------------------------------------------------------------
\* uint32_t values are sequences of four base-256 digits, least significant
\* first; exact naturals are digit sequences of any length without leading
\* zero digits.  Arithmetic therefore keeps its 32-bit width.

LimbBase == 2 ^ 8

RECURSIVE ToLimbs(_)
ToLimbs(v) == IF v = 0 THEN <<>> ELSE <<v % LimbBase>> \o ToLimbs(v \div LimbBase)

RECURSIVE Norm(_)
Norm(a) == IF a = <<>> THEN <<>>
           ELSE IF a[Len(a)] = 0 THEN Norm(SubSeq(a, 1, Len(a) - 1))
           ELSE a

RECURSIVE BigAdd(_, _, _)
BigAdd(a, b, carry) ==
  IF a = <<>> /\ b = <<>> THEN (IF carry = 0 THEN <<>> ELSE <<carry>>)
  ELSE LET x == IF a = <<>> THEN 0 ELSE Head(a)
           y == IF b = <<>> THEN 0 ELSE Head(b)
           s == x + y + carry
       IN  <<s % LimbBase>> \o BigAdd(IF a = <<>> THEN <<>> ELSE Tail(a),
                                      IF b = <<>> THEN <<>> ELSE Tail(b),
                                      s \div LimbBase)

RECURSIVE MulLimb(_, _, _)
MulLimb(a, d, carry) ==
  IF a = <<>> THEN (IF carry = 0 THEN <<>> ELSE <<carry>>)
  ELSE LET p == Head(a) * d + carry
       IN  <<p % LimbBase>> \o MulLimb(Tail(a), d, p \div LimbBase)

RECURSIVE BigMul(_, _)
BigMul(a, b) ==
  IF b = <<>> THEN <<>>
  ELSE Norm(BigAdd(MulLimb(a, Head(b), 0), <<0>> \o BigMul(a, Tail(b)), 0))

\* The low 32 bits of a natural: conversion to uint32_t.
Trunc32(a) == [i \in 1..4 |-> IF i <= Len(a) THEN a[i] ELSE 0]

\* The uint32_t with value v, for 0 <= v.
U32(v) == Trunc32(ToLimbs(v))

\* std::multiplies<uint32_t>: the product modulo 2^32.
MulU32(x, y) == Trunc32(BigMul(x, y))

\* SafeInt<uint32_t>(dim) of an int64_t: throws unless 0 <= dim <= UINT32_MAX.
SafeIntOverflows(dim) == dim < 0 \/ Len(ToLimbs(dim)) > 4

----------------------------------------------------------------------------
\* Node arguments and nodes.

Arg(name, has_shape, shape, type) ==
  [name |-> name, has_shape |-> has_shape, shape |-> shape, type |-> type]

\* An optional input that is not supplied: empty name, no shape, no type.
AbsentArg == Arg("", FALSE, <<>>, "UNDEFINED")

\* NodeArg::Exists()
Exists(arg) == arg.name # ""

InputNames == <<"X", "scale", "B", "mean", "var">>

MkNode(op_type, input_defs, n_outputs, attrs) ==
  [op_type |-> op_type, name |-> "node", input_defs |-> input_defs,
   n_outputs |-> n_outputs, attrs |-> attrs]

NullNode == MkNode("", <<>>, 0, <<>>)

\* NodeAttrHelper::Get(name, default)
HelperGet(n, attr, default) ==
  IF attr \in DOMAIN n.attrs THEN n.attrs[attr] ELSE default

\* GetShape(node_arg, shape, logger): false when the shape is not known.
GetShape(arg) == [ok |-> arg.has_shape, shape |-> arg.shape]

\* GetType(node_arg, type, logger): false when the element type is not known.
GetType(arg) == [ok |-> arg.type # "UNDEFINED", type |-> arg.type]

\* IsSupportedDataType(type, supported_data_types)
IsSupportedDataType(type, types) == type \in types

----------------------------------------------------------------------------
\* Registration.

\* The mapped builder of every supported op type after emplace: emplace
\* does not replace an existing entry.
Emplaced(map, builder) ==
  [t \in (DOMAIN map) \cup op_types |->
     IF t \in DOMAIN map THEN map[t] ELSE builder]

\* The registration without the guard of lines 226-227.
CreateWithoutGuard(op_type, reg) ==
  LET pushed == Append(reg.builders, Len(reg.builders) + 1)
  IN  [builders |-> pushed,
       op_builder_map |-> Emplaced(reg.op_builder_map, pushed[Len(pushed)])]

\* CreateNormalizationOpBuilder(op_type, op_registrations): the registry
\* after the call, as [builders, op_builder_map].
CreateNormalizationOpBuilder(op_type, reg) ==
  IF op_type \in DOMAIN reg.op_builder_map
  THEN reg
  ELSE LET pushed == Append(reg.builders, Len(reg.builders) + 1)
       IN  [builders |-> pushed,
            op_builder_map |-> Emplaced(reg.op_builder_map, pushed[Len(pushed)])]

----------------------------------------------------------------------------
\* Support filter.

\* NormalizationOpBuilder::IsOpSupportedImpl
IsOpSupportedImpl(n) ==
  LET input_defs == n.input_defs
  IN  IF Len(input_defs) < 2 THEN FALSE
      ELSE IF ~GetShape(input_defs[1]).ok THEN FALSE
      ELSE IF n.n_outputs # 1 THEN FALSE
      ELSE IF n.op_type = "BatchNormalization" /\ HelperGet(n, "training_mode", 0) # 0
           THEN FALSE
      ELSE TRUE

----------------------------------------------------------------------------
\* Input-type filter.

\* input_defs[i] (0-based).  A position at or past input_defs.size() is an
\* out-of-range read of the vector: what it yields is not defined, and is
\* the value `stray` chosen by the caller.
InputAt(n, i, stray) ==
  IF i < Len(n.input_defs) THEN n.input_defs[i + 1] ELSE stray

\* bool has_input2 / has_input3 / has_input4 (lines 187-189).
has_input2(n, stray) == Len(n.input_defs) > 2 /\ Exists(InputAt(n, 2, stray))
has_input3(n, stray) == Len(n.input_defs) > 3 /\ Exists(InputAt(n, 3, stray))
has_input4(n, stray) == Len(n.input_defs) > 3 /\ Exists(InputAt(n, 4, stray))

\* The first condition (lines 191-197): some needed type cannot be got.
SomeTypeMissing(n, stray) ==
  \/ ~GetType(InputAt(n, 0, stray)).ok
  \/ ~GetType(InputAt(n, 1, stray)).ok
  \/ (has_input2(n, stray) /\ ~GetType(InputAt(n, 2, stray)).ok)
  \/ (has_input3(n, stray) /\ ~GetType(InputAt(n, 3, stray)).ok)
  \/ (has_input4(n, stray) /\ ~GetType(InputAt(n, 4, stray)).ok)

\* The condition of lines 213-216 with a common type omitted for mean.
TypesDifferNoMean(n, stray) ==
  LET input0_type == GetType(InputAt(n, 0, stray)).type
  IN  \/ input0_type # GetType(InputAt(n, 1, stray)).type
      \/ (has_input2(n, stray) /\ input0_type # GetType(InputAt(n, 2, stray)).type)
      \/ (has_input4(n, stray) /\ input0_type # GetType(InputAt(n, 4, stray)).type)

\* The condition of lines 213-216: some present input's type differs from
\* the primary input's.
TypesDiffer(n, stray) ==
  LET input0_type == GetType(InputAt(n, 0, stray)).type
  IN  \/ input0_type # GetType(InputAt(n, 1, stray)).type
      \/ (has_input2(n, stray) /\ input0_type # GetType(InputAt(n, 2, stray)).type)
      \/ (has_input3(n, stray) /\ input0_type # GetType(InputAt(n, 3, stray)).type)
      \/ (has_input4(n, stray) /\ input0_type # GetType(InputAt(n, 4, stray)).type)

\* NormalizationOpBuilder::HasSupportedInputsImpl
HasSupportedInputsImpl(n, stray) ==
  IF SomeTypeMissing(n, stray) THEN FALSE
  ELSE IF ~IsSupportedDataType(GetType(InputAt(n, 0, stray)).type, supported_data_types)
       THEN FALSE
  ELSE IF TypesDiffer(n, stray) THEN FALSE
  ELSE TRUE

\* The positions of input_defs that HasSupportedInputsImpl reads, following
\* the order and the short-circuit evaluation of the code.
InputReads(n, stray) ==
  LET size == Len(n.input_defs)
      flags == (IF size > 2 THEN {2} ELSE {}) \cup (IF size > 3 THEN {3, 4} ELSE {})
      t0 == GetType(InputAt(n, 0, stray)).ok
  IN  flags \cup {0} \cup (IF t0 THEN {1} ELSE {})

\* What an out-of-range read can yield: an argument that looks absent, or
\* one that looks present with any element type.
StrayArgs ==
  {AbsentArg} \cup {Arg("stray", FALSE, <<>>, t) : t \in TypeTags}

----------------------------------------------------------------------------
\* Lowering: operands, options and calls on the WebNN graph builder.

\* model_builder.GetOperand(name): the operand emitted earlier for a tensor.
GetOperand(name) == [kind |-> "named", name |-> name, idx |-> 0]

\* The operand returned by the idx-th call on the graph builder.
ResultOf(idx) == [kind |-> "result", name |-> "", idx |-> idx]

NoOperand == [kind |-> "undefined", name |-> "", idx |-> 0]

\* emscripten::val options of a reshape: only the label is set.
LabelOptions(label) ==
  [label |-> label, scale |-> NoOperand, has_bias |-> FALSE, bias |-> NoOperand,
   epsilon |-> "", has_axes |-> FALSE, axes |-> <<>>]

Call(op, args, shape, options) ==
  [op |-> op, args |-> args, shape |-> shape, options |-> options]

\* What AddToModelBuilderImpl leaves behind.
Outcome(st, calls, added) == [status |-> st, ops |-> calls, operands |-> added]

\* HandleNegativeAxis(axis, rank): enforces -rank <= axis < rank.
HandleNegativeAxis(axis, rank) ==
  [ok |-> (axis >= -rank /\ axis < rank),
   axis |-> IF axis < 0 THEN axis + rank ELSE axis]

\* Bias present: lines 58 and 68.
HasBias(input_defs) == Len(input_defs) >= 3 /\ input_defs[3].name # ""

\* A comparison of the ranks only, in place of line 62.
BiasRankMatches(bias_shape, scale_shape) == Len(bias_shape) = Len(scale_shape)

\* bias_shape == scale_shape (line 62)
BiasShapeMatches(bias_shape, scale_shape) == bias_shape = scale_shape

\* An axis list that starts at 0, in place of lines 87-88.
LayerNormAxesFromZero(axis, rank) ==
  [i \in 1..(rank - axis) |-> U32(i - 1)]

\* std::vector<uint32_t> axes(rank - axis); std::iota(begin, end, axis)
LayerNormAxes(axis, rank) ==
  [i \in 1..(rank - axis) |-> U32(axis + i - 1)]

\* The std::transform of lines 100-102 and GetVecUint32FromVecInt64.
ToVecUint32(shape) == [i \in 1..Len(shape) |-> U32(shape[i])]

VecOverflows(shape) == \E i \in 1..Len(shape) : SafeIntOverflows(shape[i])

\* new_shape.insert(new_shape.begin() + 2, 4 - size, 1)
PadShapeAtTwo(new_shape) ==
  SubSeq(new_shape, 1, 2)
    \o [i \in 1..(webnn_shape_rank - Len(new_shape)) |-> U32(1)]
    \o SubSeq(new_shape, 3, Len(new_shape))

\* new_shape.insert(insertion_point, -excess_rank, 1) with
\* insertion_point = new_shape.begin() + 3, for 3 <= new_shape.size() < 4.
PadShape(new_shape) ==
  SubSeq(new_shape, 1, 3)
    \o [i \in 1..(webnn_shape_rank - Len(new_shape)) |-> U32(1)]
    \o SubSeq(new_shape, 4, Len(new_shape))

\* std::accumulate(first, last, 1, std::multiplies<uint32_t>())
RECURSIVE Accumulate(_, _)
Accumulate(s, acc) ==
  IF s = <<>> THEN acc ELSE Accumulate(Tail(s), MulU32(acc, Head(s)))

\* Lines 111-114, for new_shape.size() > 4.
FoldShape(new_shape) ==
  LET excess_rank == Len(new_shape) - webnn_shape_rank
      sum == Accumulate(SubSeq(new_shape, 4, 4 + excess_rank), U32(1))
      erased == SubSeq(new_shape, 1, 3)
                  \o SubSeq(new_shape, 4 + excess_rank, Len(new_shape))
  IN  [erased EXCEPT ![4] = sum]

\* insertion_point = new_shape.begin() + 3 lies past new_shape.end() when
\* the input has fewer than 3 dimensions; inserting there is undefined.
InsertionPointValid(new_shape) == 3 <= Len(new_shape)

\* What the undefined insert can leave in new_shape: any four values
\* among the input's dimensions and the inserted 1, or no result at all.
UbOutcomes(input_shape) ==
  LET vals == {U32(1)} \cup {U32(input_shape[i]) : i \in 1..Len(input_shape)}
  IN  {[crash |-> TRUE, shape |-> <<>>]}
        \cup {[crash |-> FALSE, shape |-> sh] : sh \in [1..4 -> vals]}

NoUb == [crash |-> FALSE, shape |-> <<>>]

\* Lines 92-134: the InstanceNormalization branch.
InstanceNormalization(n, input, input_shape, options, ub) ==
  LET reshaped == Len(input_shape) # webnn_shape_rank
      new_shape == ToVecUint32(input_shape)
      adapted == IF Len(input_shape) < webnn_shape_rank
                 THEN IF InsertionPointValid(new_shape)
                      THEN PadShape(new_shape) ELSE ub.shape
                 ELSE FoldShape(new_shape)
      reshape_input == Call("reshape", <<input>>, adapted,
                            LabelOptions(<<n.name, "_reshape_input">>))
      pre == IF reshaped THEN <<reshape_input>> ELSE <<>>
      norm_input == IF reshaped THEN ResultOf(1) ELSE input
      norm == Call("instanceNormalization", <<norm_input>>, <<>>, options)
      reshape_output == Call("reshape", <<ResultOf(Len(pre) + 1)>>,
                             ToVecUint32(input_shape),
                             LabelOptions(<<n.name, "reshape_output">>))
      calls == pre \o <<norm>> \o (IF reshaped THEN <<reshape_output>> ELSE <<>>)
  IN  IF reshaped /\ VecOverflows(input_shape)
      THEN Outcome("EXCEPTION", <<>>, {})
      ELSE IF reshaped /\ Len(input_shape) < webnn_shape_rank
              /\ ~InsertionPointValid(new_shape) /\ ub.crash
      THEN Outcome("CRASH", <<>>, {})
      ELSE Outcome("OK", calls, {[name |-> "Y", operand |-> ResultOf(Len(calls))]})

\* Lines 84-91: the LayerNormalization branch.
LayerNormalization(n, input, rank, options) ==
  LET handled == HandleNegativeAxis(HelperGet(n, "axis", -1), rank)
      axis == handled.axis
  IN  IF ~handled.ok \/ SafeIntOverflows(axis) \/ rank - axis < 0
      THEN Outcome("EXCEPTION", <<>>, {})
      ELSE Outcome("OK",
                   <<Call("layerNormalization", <<input>>, <<>>,
                          [options EXCEPT !.has_axes = TRUE,
                                          !.axes = LayerNormAxes(axis, rank)])>>,
                   {[name |-> "Y", operand |-> ResultOf(1)]})

\* Lines 78-83: the BatchNormalization branch.
BatchNormalization(n, input, options) ==
  LET input_defs == n.input_defs
  IN  IF Len(input_defs) # 5
      THEN Outcome("INVALID_ARGUMENT", <<>>, {})
      ELSE Outcome("OK",
                   <<Call("batchNormalization",
                          <<input, GetOperand(input_defs[4].name),
                            GetOperand(input_defs[5].name)>>, <<>>, options)>>,
                   {[name |-> "Y", operand |-> ResultOf(1)]})

\* NormalizationOpBuilder::AddToModelBuilderImpl
AddToModelBuilderImpl(n, ub) ==
  LET input_defs == n.input_defs
      Fail == Outcome("INVALID_ARGUMENT", <<>>, {})
  IN  IF ~(Len(input_defs) >= 2) THEN Fail
      ELSE LET input == GetOperand(input_defs[1].name)
               got_input == GetShape(input_defs[1])
               input_shape == got_input.shape
               rank == Len(input_shape)
               got_scale == GetShape(input_defs[2])
               scale_shape == got_scale.shape
               scale_size == Len(scale_shape)
               options == [label |-> <<n.name>>,
                           scale |-> GetOperand(input_defs[2].name),
                           has_bias |-> HasBias(input_defs),
                           bias |-> IF HasBias(input_defs)
                                    THEN GetOperand(input_defs[3].name)
                                    ELSE NoOperand,
                           epsilon |-> HelperGet(n, "epsilon", "1e-05"),
                           has_axes |-> FALSE, axes |-> <<>>]
           IN  IF ~got_input.ok THEN Fail
               ELSE IF ~got_scale.ok THEN Fail
               ELSE IF n.op_type = "LayerNormalization"
                       /\ ~(scale_size >= 1 /\ scale_size <= rank) THEN Fail
               ELSE IF n.op_type # "LayerNormalization" /\ ~(scale_size = 1) THEN Fail
               ELSE IF HasBias(input_defs) /\ ~GetShape(input_defs[3]).ok THEN Fail
               ELSE IF HasBias(input_defs)
                       /\ ~BiasShapeMatches(GetShape(input_defs[3]).shape, scale_shape)
                    THEN Fail
               ELSE IF n.op_type = "BatchNormalization"
                    THEN BatchNormalization(n, input, options)
               ELSE IF n.op_type = "LayerNormalization"
                    THEN LayerNormalization(n, input, rank, options)
               ELSE IF n.op_type = "InstanceNormalization"
                    THEN InstanceNormalization(n, input, input_shape, options, ub)
               ELSE Fail

\* Whether lowering the node reaches the undefined insert.
ReachesUb(n) ==
  /\ n.op_type = "InstanceNormalization"
  /\ AddToModelBuilderImpl(n, [crash |-> TRUE, shape |-> <<>>]).status = "CRASH"

----------------------------------------------------------------------------
\* The nodes handed to the builder.

\* All shapes of rank r over the dimension sizes in dims.
RECURSIVE ShapesOfRank(_, _)
ShapesOfRank(r, dims) ==
  IF r = 0 THEN {<<>>}
  ELSE {Append(sh, d) : sh \in ShapesOfRank(r - 1, dims), d \in dims}

\* Shapes with a dimension that is no uint32_t value.
SignedShapes == {<<-1, 2, 2>>, <<2, 2, 2, -1>>, <<2, 2, 2, 2, -1>>}

InputShapes == SignedShapes \cup UNION {ShapesOfRank(r, DimValues) : r \in 0..MaxRank}

\* One shape per rank, for the operators that read only the rank.
RankShapes == UNION {ShapesOfRank(r, {2}) : r \in 0..MaxRank}

ScaleShapes == {<<>>, <<2>>, <<2, 2>>}
BiasShapes == {<<2>>, <<3>>, <<2, 2>>}

Tensor(pos, shape, type) == Arg(InputNames[pos], TRUE, shape, type)
Shapeless(pos, type) == Arg(InputNames[pos], FALSE, <<>>, type)

\* Nodes that vary the presence and the element types of the inputs.
TypeChoices(pos) ==
  {Tensor(pos, IF pos = 1 THEN <<2, 2, 2>> ELSE <<2>>, t) :
     t \in IF pos = 1 THEN TypeTags ELSE TypeTags \ {"INT32"}}
    \cup (IF pos > 2 THEN {AbsentArg} ELSE {})

RECURSIVE TypedInputs(_)
TypedInputs(count) ==
  IF count = 0 THEN {<<>>}
  ELSE {Append(defs, a) : defs \in TypedInputs(count - 1), a \in TypeChoices(count)}

TypeNodes ==
  {MkNode(t, defs, 1, <<>>) :
     t \in op_types, defs \in UNION {TypedInputs(c) : c \in InputCounts}}

\* Nodes that vary the shapes of input, scale and bias.
ShapeChoices(pos, op_type) ==
  CASE pos = 1 ->
         {Shapeless(1, "FLOAT")}
           \cup {Tensor(1, sh, "FLOAT") :
                   sh \in IF op_type = "InstanceNormalization"
                          THEN InputShapes ELSE RankShapes}
    [] pos = 2 ->
         {Shapeless(2, "FLOAT")} \cup {Tensor(2, sh, "FLOAT") : sh \in ScaleShapes}
    [] pos = 3 ->
         {AbsentArg, Shapeless(3, "FLOAT")}
           \cup {Tensor(3, sh, "FLOAT") : sh \in BiasShapes}
    [] OTHER -> {Tensor(pos, <<2>>, "FLOAT")}

RECURSIVE ShapedInputs(_, _)
ShapedInputs(count, op_type) ==
  IF count = 0 THEN {<<>>}
  ELSE {Append(defs, a) : defs \in ShapedInputs(count - 1, op_type),
                          a \in ShapeChoices(count, op_type)}

ShapeNodes ==
  UNION {{MkNode(o, defs, 1, <<>>) : defs \in ShapedInputs(c, o)} :
           o \in op_types, c \in {2, 3, 5}}

\* Nodes that vary the attributes, the output count and the input rank.
AttrChoices ==
  {<<>>} \cup {"training_mode" :> v : v \in {0, 1}}
         \cup {"axis" :> a : a \in (-(MaxRank + 1))..(MaxRank + 1)}

AttrInputs(count, shape) ==
  [pos \in 1..count |-> Tensor(pos, IF pos = 1 THEN shape ELSE <<2>>, "FLOAT16")]

AttrNodes ==
  UNION {{MkNode(o, AttrInputs(c, sh), k, at) : sh \in RankShapes, at \in AttrChoices} :
           o \in op_types, c \in {2, 5}, k \in {1, 2}}

Nodes == TypeNodes \cup ShapeNodes \cup AttrNodes

----------------------------------------------------------------------------
\* The state machine.

Init ==
  /\ builders = <<>>
  /\ op_builder_map = <<>>
  /\ phase = "idle"
  /\ node = NullNode
  /\ supported = "unset"
  /\ inputs_ok = "unset"
  /\ input_reads = {}
  /\ status = "unset"
  /\ ops = <<>>
  /\ operands = {}

Bool(b) == IF b THEN "true" ELSE "false"

\* A call of CreateNormalizationOpBuilder, made while the backend sets up
\* its registry, with one of the names the factory registers.
Register(t) ==
  /\ phase = "idle"
  /\ LET reg == CreateNormalizationOpBuilder(
                  t, [builders |-> builders, op_builder_map |-> op_builder_map])
     IN  /\ builders' = reg.builders
         /\ op_builder_map' = reg.op_builder_map
  /\ UNCHANGED <<phase, node, supported, inputs_ok, input_reads, status, ops, operands>>

\* The dispatcher finds the builder of a node's op type in the registry.
Dispatch(n) ==
  /\ phase = "idle"
  /\ n.op_type \in DOMAIN op_builder_map
  /\ phase' = "node"
  /\ node' = n
  /\ UNCHANGED <<builders, op_builder_map, supported, inputs_ok, input_reads,
                 status, ops, operands>>

IsOpSupported ==
  /\ phase = "node"
  /\ supported = "unset"
  /\ supported' = Bool(IsOpSupportedImpl(node))
  /\ UNCHANGED <<builders, op_builder_map, phase, node, inputs_ok, input_reads,
                 status, ops, operands>>

\* HasSupportedInputsImpl; a read past the end of input_defs yields any
\* argument, or ends the process.
HasSupportedInputs ==
  /\ phase = "node"
  /\ inputs_ok = "unset"
  /\ input_reads' = InputReads(node, AbsentArg)
  /\ IF \E i \in input_reads' : i >= Len(node.input_defs)
     THEN \/ inputs_ok' = "crash"
          \/ \E stray \in StrayArgs :
               inputs_ok' = Bool(HasSupportedInputsImpl(node, stray))
     ELSE inputs_ok' = Bool(HasSupportedInputsImpl(node, AbsentArg))
  /\ UNCHANGED <<builders, op_builder_map, phase, node, supported, status, ops, operands>>

\* AddToModelBuilderImpl, called on a node both filters accepted.
AddToModelBuilder ==
  /\ phase = "node"
  /\ supported = "true"
  /\ inputs_ok = "true"
  /\ status = "unset"
  /\ \E ub \in (IF ReachesUb(node) THEN UbOutcomes(node.input_defs[1].shape) ELSE {NoUb}) :
       \E out \in {AddToModelBuilderImpl(node, ub)} :
         /\ status' = out.status
         /\ ops' = out.ops
         /\ operands' = out.operands
  /\ UNCHANGED <<builders, op_builder_map, phase, node, supported, inputs_ok, input_reads>>

Next ==
  \/ \E t \in op_types : Register(t)
  \/ \E n \in Nodes : Dispatch(n)
  \/ IsOpSupported
  \/ HasSupportedInputs
  \/ AddToModelBuilder

Spec == Init /\ [][Next]_vars

----------------------------------------------------------------------------
\* Properties.

\* The exact product of a sequence of uint32_t values, as a natural.
RECURSIVE ElementCount(_)
ElementCount(shape) ==
  IF shape = <<>> THEN <<1>> ELSE BigMul(ElementCount(Tail(shape)), Norm(Head(shape)))

InputDefs == node.input_defs
InputShape == node.input_defs[1].shape
Filtered == supported # "unset" /\ inputs_ok # "unset"
Accepted == supported = "true" /\ inputs_ok = "true"
Lowered == status # "unset"
IsReshape(c) == c.op = "reshape"
Output(idx) == {[name |-> "Y", operand |-> ResultOf(idx)]}

\* C1: a node of one of the three types that both filters accept is
\* lowered without a failure.
C1_FilterCoherence ==
  (Accepted /\ Lowered /\ node.op_type \in op_types) => status = "OK"

\* C2: a BatchNormalization node whose input count is not 5 is declined
\* by the filters.
C2_ArityGuard ==
  (Filtered /\ node.op_type = "BatchNormalization" /\ Len(InputDefs) # 5)
    => ~Accepted

\* A present third input whose shape is known and differs from the known
\* shape of scale.
BiasMismatch ==
  /\ phase = "node"
  /\ Len(InputDefs) >= 3
  /\ Exists(InputDefs[3])
  /\ InputDefs[2].has_shape
  /\ InputDefs[3].has_shape
  /\ InputDefs[3].shape # InputDefs[2].shape

\* C3: a node whose bias shape differs from its scale shape is rejected:
\* the support filter declines it, or the lowering fails with an invalid
\* argument before any call on the graph builder and before any operand
\* is added.
C3_BiasMismatchRejected ==
  (BiasMismatch /\ supported # "unset")
    => \/ supported = "false"
       \/ ~Lowered
       \/ (status = "INVALID_ARGUMENT" /\ ops = <<>> /\ operands = {})

\* C3 witness: a lowering that got as far as the comparison of the bias
\* shape <<3>> with the scale shape <<2>> and failed there.
C3_Witness ==
  /\ BiasMismatch
  /\ node.op_type = "InstanceNormalization"
  /\ InputDefs[1].has_shape
  /\ InputDefs[2].shape = <<2>>
  /\ InputDefs[3].shape = <<3>>
  /\ status = "INVALID_ARGUMENT"

\* The trailing dimensions of the input fold without overflow.
FoldFits(shape) ==
  /\ ~VecOverflows(shape)
  /\ Len(shape) > webnn_shape_rank =>
       Len(ElementCount(ToVecUint32(SubSeq(shape, 4, Len(shape))))) <= 4

\* C4: an InstanceNormalization input of rank other than 4, with sizes
\* that do not overflow, is reshaped to a 4-D shape with the same element
\* count, and the result is reshaped back to the input shape and added as
\* the node's output; an input of rank 4 is not reshaped.
C4_RoundTrip ==
  (Accepted /\ Lowered /\ node.op_type = "InstanceNormalization"
     /\ InputDefs[1].has_shape /\ FoldFits(InputShape)
     /\ status # "INVALID_ARGUMENT")
    => /\ status = "OK"
       /\ IF Len(InputShape) = webnn_shape_rank
          THEN /\ Len(ops) = 1
               /\ ops[1].op = "instanceNormalization"
               /\ operands = Output(1)
          ELSE /\ Len(ops) = 3
               /\ IsReshape(ops[1])
               /\ Len(ops[1].shape) = 4
               /\ ElementCount(ops[1].shape) = ElementCount(ToVecUint32(InputShape))
               /\ ops[2].op = "instanceNormalization"
               /\ IsReshape(ops[3])
               /\ ops[3].shape = ToVecUint32(InputShape)
               /\ operands = Output(3)

\* An InstanceNormalization input of rank 3 has been lowered.
Rank3Lowered ==
  /\ node.op_type = "InstanceNormalization"
  /\ status = "OK"
  /\ Len(InputShape) = 3

C6_ExactDimensions ==
  (node.op_type = "InstanceNormalization" /\ status = "OK"
     /\ Len(InputShape) > webnn_shape_rank)
    => /\ IsReshape(ops[1])
       /\ Len(ops[1].shape) = 4
       /\ \A i \in 1..3 : ops[1].shape[i] = U32(InputShape[i])
       /\ Norm(ops[1].shape[4])
            = ElementCount(ToVecUint32(SubSeq(InputShape, 4, Len(InputShape))))

\* The axis attribute of the node and its normalized value.
AxisAttr == HelperGet(node, "axis", -1)
NormalizedAxis == IF AxisAttr >= 0 THEN AxisAttr ELSE AxisAttr + Len(InputShape)
AxisInRange == AxisAttr >= -Len(InputShape) /\ AxisAttr <= Len(InputShape) - 1

\* C7: for an axis in [-r, r-1] the axes of layerNormalization are
\* n, n+1, ..., r-1 with n the normalized axis: a non-empty, strictly
\* increasing list of length r - n that ends at r-1; such an axis never
\* makes the lowering throw.
C7_LayerNormAxes ==
  (node.op_type = "LayerNormalization" /\ Lowered /\ AxisInRange)
    => /\ status # "EXCEPTION"
       /\ status = "OK" =>
            /\ Len(ops) = 1
            /\ ops[1].op = "layerNormalization"
            /\ ops[1].options.has_axes
            /\ Len(ops[1].options.axes) = Len(InputShape) - NormalizedAxis
            /\ Len(ops[1].options.axes) >= 1
            /\ \A i \in 1..Len(ops[1].options.axes) :
                 ops[1].options.axes[i] = U32(NormalizedAxis + i - 1)
            /\ ops[1].options.axes[Len(ops[1].options.axes)] = U32(Len(InputShape) - 1)

\* C7 witness: axis -2 on a rank-4 input gives the axes [2, 3].
C7_Witness ==
  /\ node.op_type = "LayerNormalization"
  /\ status = "OK"
  /\ AxisAttr = -2
  /\ Len(InputShape) = 4
  /\ ops[1].options.axes = <<U32(2), U32(3)>>

\* The inputs of the node that are present: input and scale, and each of
\* bias, mean and variance that is supplied.
PresentInputs ==
  {1, 2} \cup {i \in 3..Len(InputDefs) : Exists(InputDefs[i])}

RegistryComplete ==
  /\ Len(builders) = 1
  /\ DOMAIN op_builder_map = op_types
  /\ \A t \in op_types : op_builder_map[t] = builders[1]

\* C9: every register call with one of the three names leaves exactly
\* one builder bound to all three names, and a call on a registry that
\* already holds a builder changes neither the builders nor the map.
C9_IdempotentRegistration ==
  [][(\E t \in op_types : Register(t))
       => /\ RegistryComplete'
          /\ builders # <<>> => UNCHANGED <<builders, op_builder_map>>]_vars

\* C9 witness: the registry after the first call.
C9_Witness == RegistryComplete /\ phase = "idle"

\* C10: on a node the support filter accepts, the input-type filter reads
\* only positions below the input count and returns a boolean.
C10_InBoundsReads ==
  (supported = "true" /\ inputs_ok # "unset")
    => /\ \A i \in input_reads : i < Len(InputDefs)
       /\ inputs_ok \in {"true", "false"}

====
